---- MODULE Spec2Model ----
(***************************************************************************)
(* The storage engine of the codx snippet library                          *)
(* (src/src/codx/core/database.py): one Database instance, its single      *)
(* sqlite connection, and the CRUD handlers add_snippet, update_snippet,   *)
(* delete_snippet and get_snippet_by_id.                                   *)
(*                                                                         *)
(* Text is a sequence of one-character strings, so that strip(), lower(),  *)
(* GROUP_CONCAT(name, ', ') and split(', ') are computed, not assumed.     *)
(* The connection runs in the sqlite3 module's default transaction mode:   *)
(* the first INSERT/UPDATE/DELETE opens a transaction, which stays open    *)
(* until commit() or rollback().  "committed" is what is durable, "cur"    *)
(* is what the connection reads (committed plus the open transaction).     *)
(***************************************************************************)
EXTENDS Integers, Sequences, FiniteSets, TLC

\* ------------------------------------------------------------------ bounds

\* Number of handler calls in one run.
MaxOps == 2

\* Number of handler calls in one run of the id-allocation specification.
MaxIdOps == 4

\* Highest statement index at which an engine error (sqlite3.Error) is injected.
MaxFault == 4

\* ------------------------------------------------------------------ values

\* Python None / SQL NULL (no text has this shape).
NULL == <<"<null>">>

\* A tag-list element that is not a str (None): .strip() raises AttributeError.
NoneTag == <<"<None>">>

\* The (description, content, language) triples handed to add_snippet and
\* update_snippet; a description or language may be None.
Payloads ==
  { [d |-> NULL, c |-> <<"c">>, l |-> NULL],
    [d |-> <<"e">>, c |-> <<"c">>, l |-> <<"p">>],
    [d |-> <<"d">>, c |-> <<"e">>, l |-> <<"p">>] }

\* The tag lists handed to add_snippet and update_snippet: none; one name twice
\* up to case and blanks; a blank name, a name holding ', ' and a second name;
\* a name followed by a non-str element.
TagLists ==
  { <<>>,
    << <<" ", "A", " ">>, <<"a">> >>,
    << <<" ">>, <<"a", ",", " ", "b">>, <<"A">> >>,
    << <<"a">>, NoneTag >> }

\* ------------------------------------------------------------------ variables

VARIABLES
  committed,  \* the tables as last committed
  cur,        \* the tables as the connection reads them
  last,       \* the last handler call: arguments, outcome, what it saw before
  issued,     \* the ids add_snippet has returned, in order
  steps,      \* number of handler calls so far
  connection, \* self.connection: "none" or "open"
  closed,     \* self._closed
  now,        \* the engine's clock, in the seconds CURRENT_TIMESTAMP counts
  req         \* the last search request: query, limit, filters, engine choices

vars == <<committed, cur, last, issued, steps, connection, closed, now, req>>

\* ------------------------------------------------------------------ text

IsSpace(ch) == ch = " "

LowerChar(ch) == IF ch = "A" THEN "a" ELSE IF ch = "B" THEN "b" ELSE ch

RECURSIVE LStrip(_)
LStrip(s) == IF s # <<>> /\ IsSpace(Head(s)) THEN LStrip(Tail(s)) ELSE s

RECURSIVE RStrip(_)
RStrip(s) ==
  IF s # <<>> /\ IsSpace(s[Len(s)]) THEN RStrip(SubSeq(s, 1, Len(s) - 1)) ELSE s

\* str.strip()
Strip(s) == RStrip(LStrip(s))

\* str.lower()
Lower(s) == [i \in 1..Len(s) |-> LowerChar(s[i])]

\* tag_name.strip().lower() without the lower(): a mutant of NormalizeTag.
NormalizeTagNoLower(t) == Strip(t)

\* tag_name = tag_name.strip().lower()
NormalizeTag(t) == Lower(Strip(t))

\* The separator of the display aggregation, ', '.
Sep == <<",", " ">>

\* GROUP_CONCAT(t.name, ', ') over a non-empty list of names.
RECURSIVE GroupConcat(_)
GroupConcat(names) ==
  IF Len(names) = 1 THEN names[1]
  ELSE names[1] \o Sep \o GroupConcat(Tail(names))

\* Index of the first occurrence of ', ' in s at or after i, 0 if none.
RECURSIVE FindSep(_, _)
FindSep(s, i) ==
  IF i + 1 > Len(s) THEN 0
  ELSE IF s[i] = Sep[1] /\ s[i + 1] = Sep[2] THEN i
  ELSE FindSep(s, i + 1)

\* str.split(', ')
RECURSIVE Split(_)
Split(s) ==
  LET i == FindSep(s, 1) IN
    IF i = 0 THEN << s >>
    ELSE << SubSeq(s, 1, i - 1) >> \o Split(SubSeq(s, i + 2, Len(s)))

\* ------------------------------------------------------------------ store

\* The tables: snippets (id -> row), tags (tag id i has name tags[i]),
\* snippet_tags (a set of <<snippet_id, tag_id>>), the id counter of snippets,
\* snippets.created_at (id -> second) and snippets_fts (the index entries, in
\* rowid order).
EmptyDb ==
  [snippets |-> <<>>, tags |-> <<>>, links |-> {}, seq |-> 0,
   created |-> <<>>, fts |-> <<>>]

\* Schema: snippets.id is assigned by the engine and never reused.
NextSnippetId(db) == db.seq + 1

\* Schema: tags.name is unique, so a name has at most one row.
HasTag(db, name) == \E i \in 1..Len(db.tags) : db.tags[i] = name

\* Schema: (snippet_id, tag_id) is unique in snippet_tags.
HasLink(db, sid, tid) == <<sid, tid>> \in db.links

Row(d, c, l) == [description |-> d, content |-> c, language |-> l]

\* A row of snippets_fts.
FtsEntry(sid, d, c, l, tags) ==
  [content_id |-> sid, description |-> d, content |-> c, language |-> l,
   tags |-> tags]

\* Schema: inserting a snippet row writes its index entry in the same
\* transaction; the row has no tag links yet.
FtsAfterInsert(db, sid) ==
  LET r == db.snippets[sid] IN
    [db EXCEPT !.fts = Append(@, FtsEntry(sid, r.description, r.content, r.language, <<>>))]

\* Schema: updating a snippet row rewrites the text of its index entry.
FtsAfterUpdate(db, sid) ==
  LET r == db.snippets[sid] IN
    [db EXCEPT !.fts =
       [i \in 1..Len(@) |->
          IF @[i].content_id = sid
          THEN FtsEntry(sid, r.description, r.content, r.language, @[i].tags)
          ELSE @[i]]]

\* A schema whose delete leaves the index alone: a mutant of FtsAfterDelete.
FtsAfterDeleteNone(db, sid) == db

\* Schema: deleting a snippet row deletes its index entry.
FtsAfterDelete(db, sid) ==
  LET Other(e) == e.content_id # sid IN
    [db EXCEPT !.fts = SelectSeq(@, Other)]

\* Schema: snippets.created_at defaults to CURRENT_TIMESTAMP.
CreatedAt == now

\* INSERT INTO snippets (description, content, language) VALUES (?, ?, ?)
InsertSnippet(db, d, c, l) ==
  LET id == NextSnippetId(db) IN
    FtsAfterInsert(
      [db EXCEPT !.snippets = (id :> Row(d, c, l)) @@ @, !.seq = id,
                 !.created = (id :> CreatedAt) @@ @],
      id)

\* INSERT OR IGNORE INTO tags (name) VALUES (?)
InsertOrIgnoreTag(db, name) ==
  IF HasTag(db, name) THEN db ELSE [db EXCEPT !.tags = Append(@, name)]

\* SELECT id FROM tags WHERE name = ?
SelectTagId(db, name) == CHOOSE i \in 1..Len(db.tags) : db.tags[i] = name

\* INSERT OR IGNORE INTO snippet_tags (snippet_id, tag_id) VALUES (?, ?)
InsertOrIgnoreLink(db, sid, tid) == [db EXCEPT !.links = @ \cup {<<sid, tid>>}]

\* INSERT INTO snippet_tags (snippet_id, tag_id) VALUES (?, ?), the row being new
InsertLink(db, sid, tid) == [db EXCEPT !.links = @ \cup {<<sid, tid>>}]

\* The UPDATE with "language = ?" left out: a mutant of UpdateRow.
UpdateRowNoLanguage(db, sid, d, c, l) ==
  FtsAfterUpdate([db EXCEPT !.snippets[sid] = Row(d, c, @.language)], sid)

\* UPDATE snippets SET description = ?, content = ?, language = ? WHERE id = ?
UpdateRow(db, sid, d, c, l) ==
  FtsAfterUpdate([db EXCEPT !.snippets[sid] = Row(d, c, l)], sid)

\* The DELETE FROM snippet_tags left out: a mutant of DeleteLinks.
DeleteLinksNone(db, sid) == db

\* The DELETE of links that also deletes the tags once no link is left: a
\* mutant of DeleteLinks.
DeleteLinksCollect(db, sid) ==
  [db EXCEPT !.links = {x \in @ : x[1] # sid},
             !.tags = IF {x \in db.links : x[1] # sid} = {} THEN <<>> ELSE @]

\* DELETE FROM snippet_tags WHERE snippet_id = ?
DeleteLinks(db, sid) == [db EXCEPT !.links = {x \in @ : x[1] # sid}]

\* DELETE FROM snippets WHERE id = ?
DeleteRow(db, sid) ==
  FtsAfterDelete(
    [db EXCEPT !.snippets = [i \in DOMAIN @ \ {sid} |-> @[i]],
               !.created = [i \in DOMAIN @ \ {sid} |-> @[i]]],
    sid)

\* SELECT id FROM snippets WHERE id = ?  (a row was fetched)
SnippetExists(db, sid) == sid \in DOMAIN db.snippets

\* ------------------------------------------------------------------ statements

\* A handler run: the connection's tables, the number of statements executed,
\* and the error raised so far: "none", "engine" (sqlite3.Error: injected, or
\* an IntegrityError) or "type" (AttributeError on a non-str tag).
Start(db) == [db |-> db, n |-> 0, err |-> "none", integrity |-> FALSE]

\* cursor.execute / conn.commit: statement number n+1 raises when it is f.
Exec(st, f, newdb) ==
  IF st.err # "none" THEN st
  ELSE IF st.n + 1 = f THEN [st EXCEPT !.err = "engine"]
  ELSE [st EXCEPT !.db = newdb, !.n = @ + 1]

\* cursor.execute of a plain INSERT: raises IntegrityError on a duplicate key.
ExecUnique(st, f, dup, newdb) ==
  IF st.err # "none" THEN st
  ELSE IF st.n + 1 = f THEN [st EXCEPT !.err = "engine"]
  ELSE IF dup THEN [st EXCEPT !.err = "engine", !.integrity = TRUE]
  ELSE [st EXCEPT !.db = newdb, !.n = @ + 1]

\* ------------------------------------------------------------------ handlers

\* add_snippet, "if tags: for tag_name in tags: ..."
RECURSIVE AddTagLoop(_, _, _, _)
AddTagLoop(st, sid, tags, f) ==
  IF tags = <<>> \/ st.err # "none" THEN st
  ELSE IF Head(tags) = NoneTag THEN [st EXCEPT !.err = "type"]
  ELSE
    LET name == NormalizeTag(Head(tags)) IN
      IF name = <<>> THEN AddTagLoop(st, sid, Tail(tags), f)
      ELSE
        LET s1 == Exec(st, f, InsertOrIgnoreTag(st.db, name))
            s2 == Exec(s1, f, s1.db)
            s3 == IF s2.err # "none" THEN s2
                  ELSE Exec(s2, f,
                         InsertOrIgnoreLink(s2.db, sid, SelectTagId(s2.db, name)))
        IN AddTagLoop(s3, sid, Tail(tags), f)

\* update_snippet, "if tags: for tag in tags: ..."
RECURSIVE UpdateTagLoop(_, _, _, _)
UpdateTagLoop(st, sid, tags, f) ==
  IF tags = <<>> \/ st.err # "none" THEN st
  ELSE IF Head(tags) = NoneTag THEN [st EXCEPT !.err = "type"]
  ELSE
    LET name == NormalizeTag(Head(tags)) IN
      IF name = <<>> THEN UpdateTagLoop(st, sid, Tail(tags), f)
      ELSE
        LET s1 == Exec(st, f, InsertOrIgnoreTag(st.db, name))
            s2 == Exec(s1, f, s1.db)
            s3 == IF s2.err # "none" THEN s2
                  ELSE LET tid == SelectTagId(s2.db, name) IN
                         ExecUnique(s2, f, HasLink(s2.db, sid, tid),
                                    InsertLink(s2.db, sid, tid))
        IN UpdateTagLoop(s3, sid, Tail(tags), f)

\* add_snippet, the try block up to conn.commit()
AddBody(db, d, c, l, tags, f) ==
  LET s0 == Start(db)
      sid == NextSnippetId(db)
      s1 == Exec(s0, f, InsertSnippet(db, d, c, l))
      s2 == AddTagLoop(s1, sid, tags, f)
  IN Exec(s2, f, s2.db)

\* update_snippet, the try block from the UPDATE to conn.commit()
UpdateBody(db, sid, d, c, l, tags, f) ==
  LET s0 == Exec(Start(db), f, db)
      s1 == Exec(s0, f, UpdateRow(db, sid, d, c, l))
      s2 == Exec(s1, f, DeleteLinks(s1.db, sid))
      s3 == UpdateTagLoop(s2, sid, tags, f)
  IN Exec(s3, f, s3.db)

\* delete_snippet, the try block from the DELETEs to conn.commit()
DeleteBody(db, sid, f) ==
  LET s0 == Exec(Start(db), f, db)
      s1 == Exec(s0, f, DeleteLinks(db, sid))
      s2 == Exec(s1, f, DeleteRow(s1.db, sid))
  IN Exec(s2, f, s2.db)

\* The existence check of update_snippet / delete_snippet finding no row:
\* one SELECT, then "return False".
LookupBody(db, f) == Exec(Start(db), f, db)

\* What the connection reads after the handler's try/except: the statements'
\* result when none raised; the committed tables after conn.rollback() in
\* "except sqlite3.Error"; the statements' partial result when another
\* exception passed through (no except clause matches, nothing is rolled back).
CurAfter(st, com) ==
  IF st.err = "engine" THEN com ELSE st.db

\* A handler that skips conn.commit(): a mutant of ComAfter.
ComAfterNoCommit(st, com, commits) == com

\* A handler that commits on its "return False" path too: a mutant of ComAfter.
ComAfterAlwaysCommit(st, com, commits) ==
  IF st.err = "none" THEN st.db ELSE com

\* What is durable after the handler: conn.commit() ran only when no statement
\* raised and the handler got as far as its commit.
ComAfter(st, com, commits) ==
  IF st.err = "none" /\ commits THEN st.db ELSE com

\* ------------------------------------------------------------------ reads

\* The snippet's linked tag ids, in tag-id order (the join's order).
TagIdsOf(db, sid) == {x[2] : x \in {y \in db.links : y[1] = sid}}

RECURSIVE NamesOf(_, _, _)
NamesOf(db, sid, i) ==
  IF i > Len(db.tags) THEN <<>>
  ELSE (IF i \in TagIdsOf(db, sid) THEN << db.tags[i] >> ELSE <<>>)
       \o NamesOf(db, sid, i + 1)

\* row[k] without the "or ''": a mutant of OrEmpty.
OrEmptyMissing(v) == v

\* row[k] or ''
OrEmpty(v) == IF v = NULL \/ v = <<>> THEN <<>> ELSE v

\* row[6].split(', ') if row[6] else []
TagsColumn(names) == IF names = <<>> THEN <<>> ELSE Split(GroupConcat(names))

NotFound == [found |-> FALSE, id |-> 0, description |-> <<>>, content |-> <<>>,
             language |-> <<>>, tags |-> <<>>]

\* get_snippet_by_id: the dict returned, or None (NotFound)
GetSnippetById(db, sid) ==
  IF ~SnippetExists(db, sid) THEN NotFound
  ELSE [found |-> TRUE, id |-> sid,
        description |-> OrEmpty(db.snippets[sid].description),
        content |-> db.snippets[sid].content,
        language |-> OrEmpty(db.snippets[sid].language),
        tags |-> TagsColumn(NamesOf(db, sid, 1))]

\* ------------------------------------------------------------------ search

\* The letters of the model's texts: the characters the index's tokenizer
\* keeps; every other character separates tokens.
Letters == {"a", "b", "c", "d", "e", "p", "A", "B"}

\* The tokens the index holds for a column value: its maximal runs of
\* letters, lower-cased; none for NULL.
RECURSIVE TokAcc(_, _, _)
TokAcc(s, acc, w) ==
  IF s = <<>> THEN (IF w = <<>> THEN acc ELSE Append(acc, w))
  ELSE IF Head(s) \in Letters
       THEN TokAcc(Tail(s), acc, Append(w, LowerChar(Head(s))))
       ELSE TokAcc(Tail(s), IF w = <<>> THEN acc ELSE Append(acc, w), <<>>)

Tokens(t) == IF t = NULL THEN <<>> ELSE TokAcc(t, <<>>, <<>>)

\* str.split(): the maximal runs of non-blank characters.
RECURSIVE WordAcc(_, _, _)
WordAcc(s, acc, w) ==
  IF s = <<>> THEN (IF w = <<>> THEN acc ELSE Append(acc, w))
  ELSE IF IsSpace(Head(s))
       THEN WordAcc(Tail(s), IF w = <<>> THEN acc ELSE Append(acc, w), <<>>)
       ELSE WordAcc(Tail(s), acc, Append(w, Head(s)))

Words(s) == WordAcc(s, <<>>, <<>>)

\* ' '.join(words)
RECURSIVE JoinSpace(_)
JoinSpace(ws) ==
  IF ws = <<>> THEN <<>>
  ELSE IF Len(ws) = 1 THEN ws[1]
  ELSE ws[1] \o <<" ">> \o JoinSpace(Tail(ws))

\* special_chars = ['"', "'", '(', ')', '*', ':', '^']
SpecialChars == {"\"", "'", "(", ")", "*", ":", "^"}

\* A query left as it is: a mutant of CleanQuery.
CleanQueryNone(q) == q

\* for char in special_chars: cleaned_query = cleaned_query.replace(char, ' ')
CleanQuery(q) == [i \in 1..Len(q) |-> IF q[i] \in SpecialChars THEN " " ELSE q[i]]

\* "if len(word) >= 2" of _prepare_fts_query: the shortest word that gets a '*'.
MinPrefixLen == 2

\* A term that never gets its '*': a mutant of FtsTerm.
FtsTermNoStar(w) == w

\* f'{word}*' for words of two characters or more, else the word
FtsTerm(w) == IF Len(w) >= MinPrefixLen THEN w \o <<"*">> ELSE w

\* The empty phrase, '""'.
EmptyPhrase == <<"\"", "\"">>

\* _prepare_fts_query without "if not words: return '\"\"'": a mutant of
\* PrepareFtsQuery.
PrepareFtsQueryNoEmpty(q) ==
  LET words == Words(CleanQuery(q)) IN
    JoinSpace([i \in 1..Len(words) |-> FtsTerm(words[i])])

\* Database._prepare_fts_query(query)
PrepareFtsQuery(q) ==
  LET words == Words(CleanQuery(q)) IN
    IF words = <<>> THEN EmptyPhrase
    ELSE JoinSpace([i \in 1..Len(words) |-> FtsTerm(words[i])])

\* The engine reading one term of a MATCH expression: a bare word of letters
\* and '_', with or without a final '*', or the empty phrase; anything else
\* is a syntax error.  The word's tokens make a phrase.
TermWord(t) == IF t[Len(t)] = "*" THEN SubSeq(t, 1, Len(t) - 1) ELSE t

TermOk(t) ==
  \/ t = EmptyPhrase
  \/ /\ TermWord(t) # <<>>
     /\ \A i \in 1..Len(TermWord(t)) : TermWord(t)[i] \in Letters \cup {"_"}

Phrase(t) ==
  IF t = EmptyPhrase THEN [toks |-> <<>>, star |-> FALSE]
  ELSE [toks |-> Tokens(TermWord(t)), star |-> t[Len(t)] = "*"]

\* "WHERE snippets_fts MATCH ?" raises sqlite3.OperationalError.
FtsSyntaxError(fq) ==
  \/ Words(fq) = <<>>
  \/ \E i \in 1..Len(Words(fq)) : ~TermOk(Words(fq)[i])

IsPrefix(a, b) == Len(a) <= Len(b) /\ SubSeq(b, 1, Len(a)) = a

\* The phrase occurs in the column's tokens: consecutive tokens equal to the
\* phrase's, the last one by prefix when the phrase ends in '*'.
PhraseIn(ph, toks) ==
  LET k == Len(ph.toks) IN
    \E j \in 1..(Len(toks) - k + 1) :
      /\ \A i \in 1..(k - 1) : toks[j + i - 1] = ph.toks[i]
      /\ IF ph.star THEN IsPrefix(ph.toks[k], toks[j + k - 1])
         ELSE ph.toks[k] = toks[j + k - 1]

\* The index entry matches the expression: every phrase that has tokens
\* occurs in one of the entry's four text columns, and there is such a phrase.
EntryMatches(e, fq) ==
  LET phs == {Phrase(Words(fq)[i]) : i \in 1..Len(Words(fq))}
      real == {ph \in phs : ph.toks # <<>>}
  IN /\ real # {}
     /\ \A ph \in real :
          \E col \in {e.description, e.content, e.language, e.tags} :
            PhraseIn(ph, Tokens(col))

\* LIKE: '%' matches any run of characters, '_' any one character, letters
\* match without regard to case.
RECURSIVE Like(_, _)
Like(pat, t) ==
  IF pat = <<>> THEN t = <<>>
  ELSE IF Head(pat) = "%" THEN Like(Tail(pat), t) \/ (t # <<>> /\ Like(pat, Tail(t)))
  ELSE /\ t # <<>>
       /\ (Head(pat) = "_" \/ LowerChar(Head(pat)) = LowerChar(Head(t)))
       /\ Like(Tail(pat), Tail(t))

\* "column LIKE ?": NULL matches nothing.
ColumnLike(v, pat) == v # NULL /\ Like(pat, v)

\* search_pattern = f"%{query}%"
SearchPattern(q) == <<"%">> \o q \o <<"%">>

\* ORDER BY key DESC over the ids in S; rows with equal keys come in an order
\* the engine chooses (asc: by ascending id, else by descending id).
RECURSIVE OrderDesc(_, _, _)
OrderDesc(S, key, asc) ==
  IF S = {} THEN <<>>
  ELSE LET top == CHOOSE x \in S : \A y \in S :
                    \/ key[x] > key[y]
                    \/ key[x] = key[y] /\ (IF asc THEN x <= y ELSE x >= y)
       IN << top >> \o OrderDesc(S \ {top}, key, asc)

\* LIMIT ?: a negative limit is no limit.
Limit(q, n) ==
  IF n < 0 \/ n >= Len(q) THEN q ELSE SubSeq(q, 1, n)

\* The dict built from a result row.
SnippetDict(db, sid) ==
  [id |-> sid,
   description |-> OrEmpty(db.snippets[sid].description),
   content |-> db.snippets[sid].content,
   language |-> OrEmpty(db.snippets[sid].language),
   created_at |-> db.created[sid],
   tags |-> TagsColumn(NamesOf(db, sid, 1))]

\* get_all_snippets: every snippet, ORDER BY s.created_at DESC
GetAllSnippets(db, asc) ==
  LET ids == OrderDesc(DOMAIN db.snippets, db.created, asc) IN
    [i \in 1..Len(ids) |-> SnippetDict(db, ids[i])]

\* The ids the full-text SELECT groups: entries that match, joined to their
\* snippet rows.
FtsMatchIds(db, fq) ==
  {db.fts[i].content_id : i \in {j \in 1..Len(db.fts) : EntryMatches(db.fts[j], fq)}}
    \cap DOMAIN db.snippets

\* The full-text SELECT without its GROUP BY s.id, a row for every tag link: a
\* mutant of FtsRows.
FtsRowsUngrouped(db, fq, limit, asc) ==
  LET S == FtsMatchIds(db, fq)
      once == OrderDesc(S, [x \in S |-> 0], asc)
      ids == once \o SelectSeq(once, LAMBDA x : Cardinality(TagIdsOf(db, x)) > 1)
      n == Len(ids)
      top == Limit(ids, limit)
  IN [i \in 1..Len(top) |-> SnippetDict(db, top[i]) @@ [rank |-> i - n - 1]]

\* search_snippets_fts, the rows of the full-text SELECT as dicts: ORDER BY
\* fts.rank LIMIT ?.  The rank is the engine's relevance score, which the
\* model does not compute: the order is one the engine chooses and the k-th of
\* n rows gets rank k - n - 1 (negative, best first).
FtsRows(db, fq, limit, asc) ==
  LET S == FtsMatchIds(db, fq)
      ids == OrderDesc(S, [x \in S |-> 0], asc)
      n == Len(ids)
      top == Limit(ids, limit)
  IN [i \in 1..Len(top) |-> SnippetDict(db, top[i]) @@ [rank |-> i - n - 1]]

\* The ids the fallback SELECT groups.
FallbackIds(db, q) ==
  {sid \in DOMAIN db.snippets :
     \/ ColumnLike(db.snippets[sid].description, SearchPattern(q))
     \/ ColumnLike(db.snippets[sid].content, SearchPattern(q))
     \/ ColumnLike(db.snippets[sid].language, SearchPattern(q))}

\* _fallback_search, the rows of the LIKE SELECT as dicts: ORDER BY
\* s.created_at DESC LIMIT ?, each with 'rank': 0.
FallbackRows(db, q, limit, asc) ==
  LET top == Limit(OrderDesc(FallbackIds(db, q), db.created, asc), limit) IN
    [i \in 1..Len(top) |-> SnippetDict(db, top[i]) @@ [rank |-> 0]]

\* ' '-joined names, '' for none: COALESCE(GROUP_CONCAT(t.name, ' '), '')
TagsText(names) == JoinSpace(names)

\* INSERT INTO snippets_fts (...) SELECT ... GROUP BY s.id: one entry per
\* snippet row, in id order.
RECURSIVE IndexOf(_, _)
IndexOf(db, i) ==
  IF i > db.seq THEN <<>>
  ELSE (IF i \in DOMAIN db.snippets
        THEN << FtsEntry(i, db.snippets[i].description, db.snippets[i].content,
                         db.snippets[i].language, TagsText(NamesOf(db, i, 1))) >>
        ELSE <<>>) \o IndexOf(db, i + 1)

\* DELETE FROM snippets_fts
ClearFts(db) == [db EXCEPT !.fts = <<>>]

\* populate_fts_table without its DELETE FROM snippets_fts: a mutant of
\* PopulateBody.
PopulateBodyNoClear(db, f) ==
  LET s1 == Exec(Start(db), f, db)
      s2 == Exec(s1, f, [s1.db EXCEPT !.fts = @ \o IndexOf(s1.db, 1)])
  IN Exec(s2, f, s2.db)

\* populate_fts_table, the try block up to conn.commit()
PopulateBody(db, f) ==
  LET s1 == Exec(Start(db), f, ClearFts(db))
      s2 == Exec(s1, f, [s1.db EXCEPT !.fts = @ \o IndexOf(s1.db, 1)])
  IN Exec(s2, f, s2.db)

\* ------------------------------------------------------------------ filters and re-ranking

\* "if language:" / "if tags:": None and the empty value are not given.
Given(v) == v # NULL /\ v # <<>>

\* The language test comparing without lower(): a mutant of KeepLanguage.
KeepLanguageExact(s, language) == s.language = language

\* s.get('language', '').lower() == language.lower()
KeepLanguage(s, language) == Lower(s.language) = Lower(language)

\* all(tag.lower() in [t.lower() for t in s.get('tags', [])] for tag in tags)
KeepTags(s, tags) ==
  \A i \in 1..Len(tags) :
    Lower(tags[i]) \in {Lower(s.tags[j]) : j \in 1..Len(s.tags)}

\* search._apply_filters(snippets, language, tags)
ApplyFilters(snippets, language, tags) ==
  LET ByLanguage(s) == KeepLanguage(s, language)
      ByTags(s) == KeepTags(s, tags)
      first == IF Given(language) THEN SelectSeq(snippets, ByLanguage) ELSE snippets
  IN IF Given(tags) THEN SelectSeq(first, ByTags) ELSE first

\* f"{description} {content} {language} {' '.join(tags)}"
SearchableText(s) ==
  s.description \o <<" ">> \o s.content \o <<" ">> \o s.language \o <<" ">>
    \o JoinSpace(s.tags)

\* snippet.get('rank', 0)
RankOf(s) == IF "rank" \in DOMAIN s THEN s.rank ELSE 0

\* "if fuzzy_score > 60": the relevance threshold.
Threshold == 60

\* Ten times the combined score:
\* (fuzzy_score * 0.7) + (fts_rank * 0.3) if fts_rank else fuzzy_score
Combined10(fuzzy, rank) == IF rank # 0 THEN 7 * fuzzy + 3 * rank ELSE 10 * fuzzy

\* A list of records sorted by descending score, records of equal score
\* staying in the list's order (list.sort(reverse=True), heapq.nlargest).
RECURSIVE StableDesc(_)
StableDesc(q) ==
  IF q = <<>> THEN <<>>
  ELSE LET rest == StableDesc(SubSeq(q, 1, Len(q) - 1))
           x == q[Len(q)]
           k == Cardinality({i \in 1..Len(rest) : rest[i].score >= x.score})
       IN SubSeq(rest, 1, k) \o << x >> \o SubSeq(rest, k + 1, Len(rest))

\* The n first elements (none for n <= 0).
Top(q, n) == IF n <= 0 THEN <<>> ELSE IF n >= Len(q) THEN q ELSE SubSeq(q, 1, n)

\* process.extract(query, texts, scorer=fuzz.partial_ratio, limit=limit): the
\* (text, score) pairs of the limit best-scoring texts, best first.  The
\* scorer is the library's: scoreOf gives the score of each text for the
\* query, any value of the scale.
Extract(texts, scoreOf, limit) ==
  Top(StableDesc([i \in 1..Len(texts) |-> [text |-> texts[i], score |-> scoreOf[texts[i]]]]),
      limit)

\* "for text, snippet in searchable_snippets: if text == match_text: ... break"
FirstWithText(snippets, text) ==
  snippets[CHOOSE i \in 1..Len(snippets) :
             /\ SearchableText(snippets[i]) = text
             /\ \A j \in 1..(i - 1) : SearchableText(snippets[j]) # text]

\* search._enhance_with_fuzzy_search(snippets, query, limit)
Enhance(snippets, scoreOf, limit) ==
  IF snippets = <<>> THEN <<>>
  ELSE
    LET texts == [i \in 1..Len(snippets) |-> SearchableText(snippets[i])]
        Passes(m) == m.score > Threshold
        kept == SelectSeq(Extract(texts, scoreOf, limit), Passes)
    IN StableDesc(
         [k \in 1..Len(kept) |->
            LET sn == FirstWithText(snippets, kept[k].text) IN
              [score |-> Combined10(kept[k].score, RankOf(sn)),
               fuzzy_score |-> kept[k].score] @@ sn])

\* A slice that does not truncate: a mutant of Slice.
SliceAll(q, n) == q

\* list[:n]
Slice(q, n) ==
  IF n >= Len(q) THEN q
  ELSE IF n >= 0 THEN SubSeq(q, 1, n)
  ELSE IF Len(q) + n > 0 THEN SubSeq(q, 1, Len(q) + n) ELSE <<>>

\* "if not query.strip()"
BlankQuery(q) == Strip(q) = <<>>

\* ------------------------------------------------------------------ state

NoRow == Row(NULL, NULL, NULL)

\* What a call finds before it runs: its target snippet's row and tag ids,
\* the number of tag rows and the index.
View(db, sid) ==
  IF SnippetExists(db, sid)
  THEN [exists |-> TRUE, row |-> db.snippets[sid], tagids |-> TagIdsOf(db, sid),
        ntags |-> Len(db.tags), index |-> db.fts]
  ELSE [exists |-> FALSE, row |-> NoRow, tagids |-> {}, ntags |-> Len(db.tags),
        index |-> db.fts]

Outcome(st) ==
  IF st.err = "none" THEN "ok"
  ELSE IF st.err = "type" THEN "type_error"
  ELSE IF st.integrity THEN "integrity_error"
  ELSE "engine_error"

Call(op, sid, d, c, l, tags, outcome, result, n, before) ==
  [op |-> op, id |-> sid, d |-> d, c |-> c, l |-> l, tags |-> tags,
   outcome |-> outcome, result |-> result, progress |-> n, before |-> before]

\* A read that returns a list: its arguments, what the engine does (its order
\* among equal sort keys, whether it fails on the full-text SELECT and on the
\* other SELECT) and the list returned (empty when the call raised).
Req(kind, q, limit, language, tags, asc, ftsFails, sqlFails, rows) ==
  [kind |-> kind, query |-> q, limit |-> limit, language |-> language,
   tags |-> tags, asc |-> asc, ftsFails |-> ftsFails, sqlFails |-> sqlFails,
   rows |-> rows]

\* No such read yet.
NoReq == Req("none", <<>>, 0, <<>>, <<>>, TRUE, FALSE, FALSE, <<>>)

\* A Database over an initialised store: as the fixture leaves it (connected by
\* initialize_database), or newly constructed and not yet connected.
Init ==
  /\ committed = EmptyDb
  /\ cur = EmptyDb
  /\ last = Call("init", 0, NULL, NULL, NULL, <<>>, "ok", "None", 0, View(EmptyDb, 0))
  /\ issued = <<>>
  /\ steps = 0
  /\ connection \in {"none", "open"}
  /\ closed = FALSE
  /\ now = 0
  /\ req = NoReq

\* connect() without "if self._closed: raise": a mutant of CanConnect.
CanConnectAgain(cl) == TRUE

\* connect(): raises sqlite3.ProgrammingError when self._closed, else returns
\* the connection.
CanConnect(cl) == ~cl

\* connect() returned: "if self.connection is None: self.connection =
\* sqlite3.connect(...)".
Connected == connection' = "open" /\ UNCHANGED closed

\* connect() raised in a handler, which calls it before its try block: the
\* error reaches the caller and nothing else happened.
Refused(op, sid) ==
  /\ last' = Call(op, sid, NULL, NULL, NULL, <<>>, "closed", "raise", 0, View(cur, sid))
  /\ UNCHANGED <<committed, cur, issued, connection, closed>>
  /\ UNCHANGED <<now, req>>

\* Database.add_snippet(description, content, language, tags); the engine
\* raises at statement f (0: at none).
AddSnippet(d, c, l, tags, f) ==
  /\ IF CanConnect(closed)
     THEN LET st == AddBody(cur, d, c, l, tags, f)
              sid == NextSnippetId(cur)
          IN /\ Connected
             /\ cur' = CurAfter(st, committed)
             /\ committed' = ComAfter(st, committed, TRUE)
             /\ issued' = IF st.err = "none" THEN Append(issued, sid) ELSE issued
             /\ last' = Call("add", sid, d, c, l, tags, Outcome(st),
                             IF st.err = "none" THEN "id" ELSE "raise",
                             st.n, View(cur, sid))
     ELSE Refused("add", NextSnippetId(cur))
  /\ steps' = steps + 1
  /\ UNCHANGED <<now, req>>

\* Database.update_snippet(snippet_id, description, content, language, tags)
UpdateSnippet(sid, d, c, l, tags, f) ==
  /\ IF CanConnect(closed)
     THEN LET found == SnippetExists(cur, sid)
              st == IF found THEN UpdateBody(cur, sid, d, c, l, tags, f)
                    ELSE LookupBody(cur, f)
          IN /\ Connected
             /\ cur' = CurAfter(st, committed)
             /\ committed' = ComAfter(st, committed, found)
             /\ last' = Call("update", sid, d, c, l, tags,
                             IF st.err = "none" /\ ~found THEN "notfound" ELSE Outcome(st),
                             IF st.err # "none" THEN "raise"
                             ELSE IF found THEN "True" ELSE "False",
                             st.n, View(cur, sid))
             /\ UNCHANGED issued
     ELSE Refused("update", sid)
  /\ steps' = steps + 1
  /\ UNCHANGED <<now, req>>

\* Database.delete_snippet(snippet_id)
DeleteSnippet(sid, f) ==
  /\ IF CanConnect(closed)
     THEN LET found == SnippetExists(cur, sid)
              st == IF found THEN DeleteBody(cur, sid, f) ELSE LookupBody(cur, f)
          IN /\ Connected
             /\ cur' = CurAfter(st, committed)
             /\ committed' = ComAfter(st, committed, found)
             /\ last' = Call("delete", sid, NULL, NULL, NULL, <<>>,
                             IF st.err = "none" /\ ~found THEN "notfound" ELSE Outcome(st),
                             IF st.err = "none" /\ found THEN "True" ELSE "False",
                             st.n, View(cur, sid))
             /\ UNCHANGED issued
     ELSE Refused("delete", sid)
  /\ steps' = steps + 1
  /\ UNCHANGED <<now, req>>

\* Database.get_snippet_by_id(snippet_id): one SELECT, no commit, no rollback
GetSnippet(sid, f) ==
  /\ IF CanConnect(closed)
     THEN LET st == LookupBody(cur, f)
              found == SnippetExists(cur, sid)
          IN /\ Connected
             /\ last' = Call("get", sid, NULL, NULL, NULL, <<>>,
                             IF st.err = "none" /\ ~found THEN "notfound" ELSE Outcome(st),
                             IF st.err # "none" THEN "raise"
                             ELSE IF found THEN "dict" ELSE "None",
                             st.n, View(cur, sid))
             /\ UNCHANGED <<committed, cur, issued>>
     ELSE Refused("get", sid)
  /\ steps' = steps + 1
  /\ UNCHANGED <<now, req>>

\* Database.close(): closes the connection, if any, without committing (the
\* open transaction is lost), and marks the instance closed.
Close ==
  /\ connection' = "none"
  /\ closed' = TRUE
  /\ cur' = committed
  /\ last' = Call("close", 0, NULL, NULL, NULL, <<>>, "ok", "None", 0, View(cur, 0))
  /\ UNCHANGED <<committed, issued>>
  /\ steps' = steps + 1
  /\ UNCHANGED <<now, req>>

\* Database.initialize_database(): executescript() commits the open
\* transaction and runs the schema, whose tables exist already, then
\* conn.commit(); "except sqlite3.Error" rolls back and raises.
Initialize(f) ==
  /\ IF CanConnect(closed)
     THEN LET s1 == Exec(Start(cur), f, cur)
              st == Exec(s1, f, cur)
          IN /\ Connected
             /\ committed' = IF s1.err = "none" THEN cur ELSE committed
             /\ cur' = IF s1.err = "none" THEN cur ELSE committed
             /\ last' = Call("initialize", 0, NULL, NULL, NULL, <<>>, Outcome(st),
                             IF st.err = "none" THEN "None" ELSE "raise",
                             st.n, View(cur, 0))
             /\ UNCHANGED issued
     ELSE Refused("initialize", 0)
  /\ steps' = steps + 1
  /\ UNCHANGED <<now, req>>

\* Database.populate_fts_table()
Populate(f) ==
  /\ IF CanConnect(closed)
     THEN LET st == PopulateBody(cur, f)
          IN /\ Connected
             /\ cur' = CurAfter(st, committed)
             /\ committed' = ComAfter(st, committed, TRUE)
             /\ last' = Call("populate", 0, NULL, NULL, NULL, <<>>, Outcome(st),
                             IF st.err = "none" THEN "None" ELSE "raise",
                             st.n, View(cur, 0))
             /\ UNCHANGED issued
     ELSE Refused("populate", 0)
  /\ steps' = steps + 1
  /\ UNCHANGED <<now, req>>

\* A read: nothing is written, committed or rolled back.
Reads(op, outcome, q, limit, language, tags, asc, ftsFails, sqlFails, rows) ==
  /\ Connected
  /\ last' = Call(op, 0, NULL, NULL, NULL, <<>>, outcome,
                  IF outcome = "engine_error" THEN "raise" ELSE "list",
                  0, View(cur, 0))
  /\ req' = Req(op, q, limit, language, tags, asc, ftsFails, sqlFails,
                IF outcome = "engine_error" THEN <<>> ELSE rows)
  /\ UNCHANGED <<committed, cur, issued>>

\* connect() raised in a read.
RefusedRead(op) ==
  /\ last' = Call(op, 0, NULL, NULL, NULL, <<>>, "closed", "raise", 0, View(cur, 0))
  /\ UNCHANGED <<committed, cur, issued, connection, closed, req>>

\* Database.get_all_snippets(); the engine raises on the SELECT when fails
\* ("except sqlite3.Error: raise Exception").
ListAll(asc, fails) ==
  /\ IF CanConnect(closed)
     THEN Reads("list", IF fails THEN "engine_error" ELSE "ok",
                <<>>, 0, <<>>, <<>>, asc, FALSE, fails, GetAllSnippets(cur, asc))
     ELSE RefusedRead("list")
  /\ steps' = steps + 1
  /\ UNCHANGED now

\* Database._fallback_search(query, limit); the engine raises on the SELECT
\* when fails ("except sqlite3.Error: raise Exception").
FallbackSearch(q, limit, asc, fails) ==
  /\ IF CanConnect(closed)
     THEN Reads("fallback", IF fails THEN "engine_error" ELSE "ok",
                q, limit, <<>>, <<>>, asc, FALSE, fails,
                FallbackRows(cur, q, limit, asc))
     ELSE RefusedRead("fallback")
  /\ steps' = steps + 1
  /\ UNCHANGED now

\* What search_snippets_fts does once connected: the full-text SELECT, and
\* in "except sqlite3.Error" (ftsFails, or the expression does not parse)
\* "return self._fallback_search(query, limit)", whose SELECT raises when
\* fallbackFails.
FtsOutcome(q, ftsFails, fallbackFails) ==
  IF ~(ftsFails \/ FtsSyntaxError(PrepareFtsQuery(q))) THEN "ok"
  ELSE IF fallbackFails THEN "engine_error"
  ELSE "fallback"

\* search_snippets_fts falling back with the prepared expression instead of
\* the raw query: a mutant of SearchFtsRows.
SearchFtsRowsPrepared(db, q, limit, asc, ftsFails) ==
  IF ftsFails \/ FtsSyntaxError(PrepareFtsQuery(q))
  THEN FallbackRows(db, PrepareFtsQuery(q), limit, asc)
  ELSE FtsRows(db, PrepareFtsQuery(q), limit, asc)

SearchFtsRows(db, q, limit, asc, ftsFails) ==
  IF ftsFails \/ FtsSyntaxError(PrepareFtsQuery(q))
  THEN FallbackRows(db, q, limit, asc)
  ELSE FtsRows(db, PrepareFtsQuery(q), limit, asc)

\* Database.search_snippets_fts(query, limit)
SearchFts(q, limit, asc, ftsFails, fallbackFails) ==
  /\ IF CanConnect(closed)
     THEN Reads("fts", FtsOutcome(q, ftsFails, fallbackFails),
                q, limit, <<>>, <<>>, asc, ftsFails, fallbackFails,
                SearchFtsRows(cur, q, limit, asc, ftsFails))
     ELSE RefusedRead("fts")
  /\ steps' = steps + 1
  /\ UNCHANGED now

\* What search_snippets returns over the store db, when nothing raises: for a
\* blank query the filtered list of all snippets cut to limit; else the
\* filtered result of search_snippets_fts(query, limit * 2), re-ranked when
\* use_fuzzy and not empty, cut to limit when not.
SearchSnippetsRows(db, q, limit, language, tags, fuzzy, asc, ftsFails, scores) ==
  IF BlankQuery(q)
  THEN Slice(ApplyFilters(GetAllSnippets(db, asc), language, tags), limit)
  ELSE LET filtered ==
             ApplyFilters(SearchFtsRows(db, q, limit * 2, asc, ftsFails), language, tags)
       IN IF fuzzy /\ filtered # <<>>
          THEN Enhance(filtered, scores, limit)
          ELSE Slice(filtered, limit)

\* What the reads of search_snippets do once connected.
SearchOutcome(q, ftsFails, sqlFails) ==
  IF BlankQuery(q)
  THEN (IF sqlFails THEN "engine_error" ELSE "ok")
  ELSE FtsOutcome(q, ftsFails, sqlFails)

\* The texts the library may be asked to score over the store db.
TextsOf(db) == {SearchableText(SnippetDict(db, sid)) : sid \in DOMAIN db.snippets}

\* A Database object: its connection and its _closed flag.
DatabaseObject(conn, cl) == [connection |-> conn, closed |-> cl]

\* No Database was created.
NoDatabase == DatabaseObject("absent", FALSE)

\* search_snippets closing its Database after the return statements only, not
\* in a finally clause: a mutant of CreatedAfter.
CreatedAfterReturn(own, raised) ==
  IF ~own THEN NoDatabase
  ELSE IF raised THEN DatabaseObject("open", FALSE)
  ELSE DatabaseObject("none", TRUE)

\* The Database search_snippets created (db is None), as the function leaves
\* it: connected by the read, then "finally: if should_close: db.close()".
CreatedAfter(own, raised) ==
  IF own THEN DatabaseObject("none", TRUE) ELSE NoDatabase

\* search.search_snippets(query, limit, language, tags, use_fuzzy, db).  With
\* own (db is None) it creates a Database of its own on the store, which sees
\* what is committed, and closes it on the way out; else it reads through the
\* caller's Database, whose connect() raises when that one is closed.  The
\* library scores each text as scores says.
SearchSnippets(q, limit, language, tags, fuzzy, own, asc, ftsFails, sqlFails, scores) ==
  LET db == IF own THEN committed ELSE cur
      refused == ~own /\ ~CanConnect(closed)
      outcome == IF refused THEN "closed" ELSE SearchOutcome(q, ftsFails, sqlFails)
      raised == outcome \in {"closed", "engine_error"}
  IN /\ last' = Call("search", 0, NULL, NULL, NULL, <<>>, outcome,
                     IF raised THEN "raise" ELSE "list", 0, View(cur, 0))
     /\ req' = Req("search", q, limit, language, tags, asc, ftsFails, sqlFails,
                   IF raised THEN <<>>
                   ELSE SearchSnippetsRows(db, q, limit, language, tags, fuzzy, asc,
                                           ftsFails, scores))
                @@ [fuzzy |-> fuzzy, own |-> own, scores |-> scores,
                    created |-> CreatedAfter(own, raised)]
     /\ connection' = IF own \/ refused THEN connection ELSE "open"
     /\ steps' = steps + 1
     /\ UNCHANGED <<committed, cur, issued, closed, now>>

\* A second passes on the engine's clock.
Tick ==
  /\ now' = now + 1
  /\ UNCHANGED <<committed, cur, last, issued, steps, connection, closed, req>>

\* The ids a caller may pass: those issued so far and the next one.
Ids == 1..(cur.seq + 1)

Faults == 0..MaxFault

\* Any caller: every handler, with every payload, tag list and fault.
Next ==
  \/ \E p \in Payloads, tags \in TagLists, f \in Faults :
        steps < MaxOps /\ AddSnippet(p.d, p.c, p.l, tags, f)
  \/ \E sid \in Ids, p \in Payloads, tags \in TagLists, f \in Faults :
        steps < MaxOps /\ UpdateSnippet(sid, p.d, p.c, p.l, tags, f)
  \/ \E sid \in Ids, f \in Faults : steps < MaxOps /\ DeleteSnippet(sid, f)
  \/ \E sid \in Ids, f \in 0..1 : steps < MaxOps /\ GetSnippet(sid, f)

Spec == Init /\ [][Next]_vars

\* A caller that issues longer runs of calls with one payload and two tag
\* lists (no tags; a name followed by a non-str element): id allocation does
\* not read the text stored.
IdPayload == [d |-> <<"d">>, c |-> <<"c">>, l |-> NULL]

IdTagLists == { <<>>, << <<"a">>, NoneTag >> }

NextIds ==
  \/ \E tags \in IdTagLists, f \in Faults :
        steps < MaxIdOps /\ AddSnippet(IdPayload.d, IdPayload.c, IdPayload.l, tags, f)
  \/ \E sid \in Ids, tags \in IdTagLists, f \in Faults :
        steps < MaxIdOps
        /\ UpdateSnippet(sid, IdPayload.d, IdPayload.c, IdPayload.l, tags, f)
  \/ \E sid \in Ids, f \in Faults : steps < MaxIdOps /\ DeleteSnippet(sid, f)
  \/ \E sid \in Ids, f \in 0..1 : steps < MaxIdOps /\ GetSnippet(sid, f)

SpecIds == Init /\ [][NextIds]_vars

\* Number of calls in one run of the life-cycle specification.
MaxLifeOps == 3

\* The one query of the life-cycle specification.
LifeQuery == <<"c">>

\* A caller that uses every operation of the instance, close() among them,
\* each with one input; an add with a non-str tag leaves a transaction open.
NextLife ==
  \/ \E f \in 0..1 : steps < MaxLifeOps /\ Initialize(f)
  \/ steps < MaxLifeOps /\ ListAll(TRUE, FALSE)
  \/ steps < MaxLifeOps /\ GetSnippet(1, 0)
  \/ \E tags \in IdTagLists :
        steps < MaxLifeOps /\ AddSnippet(IdPayload.d, IdPayload.c, IdPayload.l, tags, 0)
  \/ steps < MaxLifeOps
        /\ UpdateSnippet(1, IdPayload.d, IdPayload.c, IdPayload.l, <<>>, 0)
  \/ steps < MaxLifeOps /\ DeleteSnippet(1, 0)
  \/ \E ff \in BOOLEAN : steps < MaxLifeOps /\ SearchFts(LifeQuery, 1, TRUE, ff, FALSE)
  \/ steps < MaxLifeOps /\ FallbackSearch(LifeQuery, 1, TRUE, FALSE)
  \/ steps < MaxLifeOps /\ Populate(0)
  \/ steps < MaxLifeOps /\ Close

SpecLife == Init /\ [][NextLife]_vars

\* Number of handler calls in one run of the index specification.
MaxIndexOps == 3

\* Texts to search: a word of four letters; a text with a '(' and with a '-'
\* between two letters, with a description and a language.
SearchPayloads ==
  { [d |-> NULL, c |-> <<"A", "b", "b", "a">>, l |-> NULL],
    [d |-> <<"e">>, c |-> <<"(", "a", "-", "b">>, l |-> <<"p">>] }

\* Tag lists of the index specification: none; two names; a name followed by
\* a non-str element.
IndexTagLists == { <<>>, << <<"a">>, <<"b">> >>, << <<"b">>, NoneTag >> }

\* Statements at which the index specification injects an engine error.
IndexFaults == {0, 3}

\* A caller that writes snippets and rebuilds the index.
NextIndex ==
  \/ \E p \in SearchPayloads, tags \in IndexTagLists, f \in IndexFaults :
        steps < MaxIndexOps /\ AddSnippet(p.d, p.c, p.l, tags, f)
  \/ \E sid \in Ids, p \in SearchPayloads, tags \in IndexTagLists, f \in IndexFaults :
        steps < MaxIndexOps /\ UpdateSnippet(sid, p.d, p.c, p.l, tags, f)
  \/ \E sid \in Ids, f \in IndexFaults : steps < MaxIndexOps /\ DeleteSnippet(sid, f)
  \/ \E f \in 0..3 : steps < MaxIndexOps /\ Populate(f)

SpecIndex == Init /\ [][NextIndex]_vars

\* Number of handler calls in one run of the search specification.
MaxSearchOps == 2

\* Seconds that pass in one run of the search specification.
MaxClock == 1

\* Queries: the first three characters of a stored word (two of them); a character the
\* sanitizer strips; one it does not strip; a '_' between two letters; two
\* letters inside a stored word, in another case; a blank.
SearchQueries ==
  { <<"A", "b", "b">>, <<"B", "a", "a">>, <<"(">>, <<"-">>, <<"a", "_", "b">>,
    <<"b", "B">>, <<" ">> }

SearchLimits == {1, 2}

\* Tag lists of the search specification's add_snippet.
SearchTagLists == { <<>>, << <<"a">>, <<"b">> >> }

\* What the search specification's update_snippet writes: a word that no
\* add_snippet stores, and one tag.
UpdatePayload == [d |-> <<"d">>, c |-> <<"B", "a", "a", "b">>, l |-> NULL]

UpdateTags == << <<"b">> >>

\* No list has been asked for yet.
Writing == req = NoReq

\* A caller that writes a few snippets, seconds passing or not, and then
\* searches once: a read changes nothing a later call reads.
NextSearch ==
  \/ \E p \in SearchPayloads, tags \in SearchTagLists :
        Writing /\ steps < MaxSearchOps /\ AddSnippet(p.d, p.c, p.l, tags, 0)
  \/ \E sid \in Ids, p \in SearchPayloads \cup {UpdatePayload} :
        Writing /\ steps < MaxSearchOps
        /\ UpdateSnippet(sid, p.d, p.c, p.l, UpdateTags, 0)
  \/ \E sid \in Ids : Writing /\ steps < MaxSearchOps /\ DeleteSnippet(sid, 0)
  \/ Writing /\ now < MaxClock /\ Tick
  \/ \E q \in SearchQueries, n \in SearchLimits, asc \in BOOLEAN,
         ff \in BOOLEAN, bf \in BOOLEAN :
        Writing /\ SearchFts(q, n, asc, ff, bf)
  \/ \E q \in SearchQueries, n \in SearchLimits, asc \in BOOLEAN, bf \in BOOLEAN :
        Writing /\ FallbackSearch(q, n, asc, bf)
  \/ \E asc \in BOOLEAN, bf \in BOOLEAN : Writing /\ ListAll(asc, bf)

SpecSearch == Init /\ [][NextSearch]_vars

\* Writes before a search_snippets.
MaxQueryOps == 3

\* The snippets added: with a language and no tags, with a tag and no
\* language.
QueryAdds ==
  { [d |-> <<"d">>, c |-> <<"a", "b">>, l |-> <<"B">>, tags |-> <<>>],
    [d |-> NULL, c |-> <<"a", "b">>, l |-> NULL, tags |-> << <<"A">> >>] }

BlankQueries == { <<>>, <<" ">> }

WordQueries == { <<"a", "b">> }

QueryLimits == {1, 2}

QueryLanguages == { NULL, <<"b">> }

QueryTags == { NULL, << <<"a">> >> }

\* The scores the library may give the texts of the store: it is asked for
\* none when use_fuzzy is off.
ScoresOver(db, fuzzy) ==
  IF fuzzy THEN [TextsOf(db) -> {60, 100}] ELSE { <<>> }

\* A caller that adds snippets, as time passes, and then calls search_snippets
\* once: with a blank query through the Database it wrote with, or with a
\* query of one word through that one or none.
NextQuery ==
  \/ Writing /\ steps < MaxQueryOps
        /\ \E p \in QueryAdds : AddSnippet(p.d, p.c, p.l, p.tags, 0)
  \/ Writing /\ now < MaxClock /\ Tick
  \/ Writing
        /\ \E q \in BlankQueries, n \in QueryLimits, language \in QueryLanguages,
               tags \in QueryTags, fuzzy \in BOOLEAN, asc \in BOOLEAN,
               ff \in BOOLEAN, bf \in BOOLEAN :
              SearchSnippets(q, n, language, tags, fuzzy, FALSE, asc, ff, bf, <<>>)
  \/ Writing
        /\ \E q \in WordQueries, n \in QueryLimits, language \in QueryLanguages,
               fuzzy \in BOOLEAN, own \in BOOLEAN, ff \in BOOLEAN, bf \in BOOLEAN :
              \E scores \in ScoresOver(cur, fuzzy) :
                SearchSnippets(q, n, language, NULL, fuzzy, own, TRUE, ff, bf, scores)

SpecQuery == Init /\ [][NextQuery]_vars

\* Number of calls in one run of the ownership specification.
MaxOwnerOps == 3

\* Its queries: a blank, a stored word.
OwnerQueries == { <<" ">>, <<"c">> }

\* A caller that adds a snippet, closes its Database, reads a snippet and
\* calls search_snippets with its Database or with none, in any order.
NextOwner ==
  \/ steps < MaxOwnerOps
        /\ AddSnippet(IdPayload.d, IdPayload.c, IdPayload.l, <<>>, 0)
  \/ steps < MaxOwnerOps /\ Close
  \/ steps < MaxOwnerOps /\ GetSnippet(1, 0)
  \/ steps < MaxOwnerOps
        /\ \E q \in OwnerQueries, fuzzy \in BOOLEAN, own \in BOOLEAN,
               ff \in BOOLEAN, bf \in BOOLEAN :
              \E scores \in ScoresOver(cur, fuzzy) :
                SearchSnippets(q, 1, NULL, NULL, fuzzy, own, TRUE, ff, bf, scores)

SpecOwner == Init /\ [][NextOwner]_vars

\* Writes before a search of an index that may be stale.
MaxStaleOps == 4

\* What the stale-index specification writes.
StalePayload == [d |-> NULL, c |-> <<"e">>, l |-> <<"p">>]

\* Its tag lists for add_snippet: a name; two names; a name with ', ' inside.
StaleAddTags ==
  { << <<"a">> >>, << <<"a">>, <<"b">> >>, << <<"a", ",", " ", "b">> >> }

\* Its tag lists for update_snippet.
StaleUpdateTags == { <<>>, << <<"b">> >> }

\* Its queries: a tag name, the content.
StaleQueries == { <<"a">>, <<"e">> }

\* A caller that adds snippets, rebuilds the index, rewrites or deletes the
\* first snippet, and then searches once.
NextStale ==
  \/ Writing /\ steps < MaxStaleOps
        /\ \E tags \in StaleAddTags :
              AddSnippet(StalePayload.d, StalePayload.c, StalePayload.l, tags, 0)
  \/ Writing /\ steps < MaxStaleOps /\ Populate(0)
  \/ Writing /\ steps < MaxStaleOps
        /\ \E tags \in StaleUpdateTags :
              UpdateSnippet(1, StalePayload.d, StalePayload.c, StalePayload.l, tags, 0)
  \/ Writing /\ steps < MaxStaleOps /\ DeleteSnippet(1, 0)
  \/ Writing
        /\ \E q \in StaleQueries, asc \in BOOLEAN, ff \in BOOLEAN :
              SearchFts(q, 2, asc, ff, FALSE)

SpecStale == Init /\ [][NextStale]_vars

\* Longest query handed to _prepare_fts_query.
MaxQueryLen == 4

\* Characters of those queries: letters in both cases, a blank, two of the
\* characters replaced, one that is not.
QueryChars == {"a", "B", " ", "(", ":", "-"}

\* The texts of at most n characters of S.
TextsUpTo(S, n) == UNION {[1..k -> S] : k \in 0..n}

\* A call of _prepare_fts_query: its argument and, once it returned, its
\* result.
PrepareCall(kind, q, out) == [kind |-> kind, query |-> q, out |-> out]

\* A caller about to prepare a query.
InitPrepare ==
  /\ committed = EmptyDb /\ cur = EmptyDb
  /\ last = Call("init", 0, NULL, NULL, NULL, <<>>, "ok", "None", 0, View(EmptyDb, 0))
  /\ issued = <<>> /\ steps = 0
  /\ connection = "none" /\ closed = FALSE /\ now = 0
  /\ \E q \in TextsUpTo(QueryChars, MaxQueryLen) : req = PrepareCall("prepare_args", q, <<>>)

\* _prepare_fts_query(query) returns.
PrepareReturns ==
  /\ req.kind = "prepare_args"
  /\ req' = PrepareCall("prepare", req.query, PrepareFtsQuery(req.query))
  /\ UNCHANGED <<committed, cur, last, issued, steps, connection, closed, now>>

NextPrepare == PrepareReturns

SpecPrepare == InitPrepare /\ [][NextPrepare]_vars

\* Longest list handed to _apply_filters.
MaxList == 2

\* A snippet dict as the reads build it.
Dict(sid, d, c, l, tags) ==
  [id |-> sid, description |-> d, content |-> c, language |-> l, created_at |-> 0,
   tags |-> tags]

\* Snippets to filter: languages in both cases and none, tags in both cases
\* and none.
FilterDicts ==
  { Dict(1, <<>>, <<"c">>, <<"B">>, << <<"A">>, <<"b">> >>),
    Dict(2, <<"d">>, <<"c">>, <<"b">>, << <<"a">> >>),
    Dict(3, <<>>, <<"c">>, <<>>, <<>>),
    Dict(4, <<>>, <<"e">>, <<"e">>, << <<"b">>, <<"a">> >>) }

\* The lists of at most n dicts of S with pairwise distinct ids.
ListsOf(S, n) ==
  {q \in UNION {[1..k -> S] : k \in 0..n} :
     \A i \in 1..Len(q) : \A j \in 1..Len(q) : i # j => q[i].id # q[j].id}

FilterLanguages == { NULL, <<>>, <<"b">>, <<"B">> }

FilterTags == { NULL, <<>>, << <<"A">> >>, << <<"a">>, <<"B">> >> }

\* A call of _apply_filters: its arguments and, once it returned, its result.
FilterCall(kind, given, language, tags, rows) ==
  [kind |-> kind, given |-> given, language |-> language, tags |-> tags,
   rows |-> rows]

\* A caller about to filter a list.
InitFilter ==
  /\ committed = EmptyDb /\ cur = EmptyDb
  /\ last = Call("init", 0, NULL, NULL, NULL, <<>>, "ok", "None", 0, View(EmptyDb, 0))
  /\ issued = <<>> /\ steps = 0
  /\ connection = "none" /\ closed = FALSE /\ now = 0
  /\ \E given \in ListsOf(FilterDicts, MaxList), language \in FilterLanguages,
        tags \in FilterTags :
        req = FilterCall("filter_args", given, language, tags, <<>>)

\* _apply_filters(snippets, language, tags) returns.
ApplyFiltersCall ==
  /\ req.kind = "filter_args"
  /\ req' = FilterCall("filter", req.given, req.language, req.tags,
                      ApplyFilters(req.given, req.language, req.tags))
  /\ UNCHANGED <<committed, cur, last, issued, steps, connection, closed, now>>

NextFilter == ApplyFiltersCall

SpecFilter == InitFilter /\ [][NextFilter]_vars

\* Longest candidate list handed to _enhance_with_fuzzy_search.
MaxCands == 2

\* Candidates of the re-ranking: two with the same description, content,
\* language and tags, and a third; with and without a full-text rank.
RankedDicts ==
  { Dict(1, <<"d">>, <<"c">>, <<"p">>, <<>>) @@ [rank |-> -1],
    Dict(2, <<"d">>, <<"c">>, <<"p">>, <<>>) @@ [rank |-> 0],
    Dict(3, <<"d">>, <<"e">>, <<"p">>, <<>>) @@ [rank |-> -5] }

\* Scores the library may give a text: at the threshold, just above it, high.
ScoreValues == {60, 61, 62, 100}

EnhanceLimits == {1, 2, 3}

\* A call of _enhance_with_fuzzy_search: its arguments, the library's scores
\* and, once it returned, its result.
EnhanceCall(kind, given, scores, limit, rows) ==
  [kind |-> kind, given |-> given, scores |-> scores, limit |-> limit, rows |-> rows]

\* A caller about to re-rank a list of candidates.
InitEnhance ==
  /\ committed = EmptyDb /\ cur = EmptyDb
  /\ last = Call("init", 0, NULL, NULL, NULL, <<>>, "ok", "None", 0, View(EmptyDb, 0))
  /\ issued = <<>> /\ steps = 0
  /\ connection = "none" /\ closed = FALSE /\ now = 0
  /\ \E given \in ListsOf(RankedDicts, MaxCands),
        scores \in [{SearchableText(x) : x \in RankedDicts} -> ScoreValues],
        limit \in EnhanceLimits :
        req = EnhanceCall("enhance_args", given, scores, limit, <<>>)

\* _enhance_with_fuzzy_search(snippets, query, limit) returns.
EnhanceReturns ==
  /\ req.kind = "enhance_args"
  /\ req' = EnhanceCall("enhance", req.given, req.scores, req.limit,
                       Enhance(req.given, req.scores, req.limit))
  /\ UNCHANGED <<committed, cur, last, issued, steps, connection, closed, now>>

NextEnhance == EnhanceReturns

SpecEnhance == InitEnhance /\ [][NextEnhance]_vars

\* ------------------------------------------------------------------ properties

\* What the claims say of text, stated on positions rather than computed by
\* the handlers' operators.
Range(q) == {q[i] : i \in 1..Len(q)}

Blank(t) == \A i \in 1..Len(t) : t[i] = " "

FirstInk(t) == CHOOSE i \in 1..Len(t) : t[i] # " " /\ \A j \in 1..(i - 1) : t[j] = " "

LastInk(t) == CHOOSE i \in 1..Len(t) : t[i] # " " /\ \A j \in (i + 1)..Len(t) : t[j] = " "

Fold(ch) == CASE ch = "A" -> "a" [] ch = "B" -> "b" [] OTHER -> ch

\* The trimmed, lower-cased form of a non-blank name.
Canonical(t) == [k \in 1..(LastInk(t) - FirstInk(t) + 1) |-> Fold(t[FirstInk(t) + k - 1])]

IsCanonical(n) ==
  /\ n # <<>>
  /\ n[1] # " " /\ n[Len(n)] # " "
  /\ \A i \in 1..Len(n) : n[i] \notin {"A", "B"}

AllStr(tags) == \A i \in 1..Len(tags) : tags[i] # NoneTag

\* The names a tag list asks for: its non-blank elements, trimmed and lower-cased.
WantedNames(tags) ==
  {Canonical(tags[i]) : i \in {j \in 1..Len(tags) : ~Blank(tags[j])}}

\* The pieces of a name between its occurrences of ', '.
Cuts(n) == {i \in 1..(Len(n) - 1) : n[i] = "," /\ n[i + 1] = " "}

PieceEnd(n, a) ==
  IF \E i \in Cuts(n) : i >= a
  THEN (CHOOSE i \in Cuts(n) : i >= a /\ \A j \in Cuts(n) : j >= a => i <= j) - 1
  ELSE Len(n)

Pieces(n) == {SubSeq(n, a, PieceEnd(n, a)) : a \in {1} \cup {i + 2 : i \in Cuts(n)}}

NamesLinked(db, sid) == {db.tags[i] : i \in TagIdsOf(db, sid)}

AddOk == last.op = "add" /\ last.outcome = "ok"

UpdateOk == last.op = "update" /\ last.outcome = "ok"

Failed == last.outcome \in {"engine_error", "integrity_error", "type_error"}

\* An absent (None) description or language is the empty text of the data model.
AsText(v) == IF v = NULL THEN <<>> ELSE v

\* C1, as stated: add(d, c, l, tags) then get(id) returns exactly d, c, l and
\* the tags as a set.
C1_RoundTripExact ==
  AddOk =>
    LET g == GetSnippetById(cur, last.id) IN
      /\ g.found
      /\ g.description = AsText(last.d)
      /\ g.content = last.c
      /\ g.language = AsText(last.l)
      /\ Range(g.tags) = Range(last.tags)

\* C1, amended: add(d, c, l, tags) then get(id) returns c exactly, d and l with
\* None read back as '', and as tags (as a set) the trimmed, lower-cased
\* non-blank names of tags, each cut at the ', ' it contains.
C1_RoundTripNormalized ==
  AddOk =>
    LET g == GetSnippetById(cur, last.id) IN
      /\ g.found /\ g.id = last.id
      /\ g.description = AsText(last.d)
      /\ g.content = last.c
      /\ g.language = AsText(last.l)
      /\ Range(g.tags) = UNION {Pieces(n) : n \in WantedNames(last.tags)}

\* C1 witness: a successful add whose tag list has a blank name, a name with
\* ', ' inside and an upper-case name, and whose language is None.
C1_Witness ==
  /\ AddOk
  /\ last.l = NULL
  /\ last.tags = << <<" ">>, <<"a", ",", " ", "b">>, <<"A">> >>
  /\ Range(GetSnippetById(cur, last.id).tags) = { <<"a">>, <<"b">> }

\* C2: the id add_snippet returns was returned by no earlier add_snippet.
C2_IdsNeverReissued ==
  \A i \in 1..Len(issued) : \A j \in 1..Len(issued) : i # j => issued[i] # issued[j]

\* C2 witness: add_snippet returned an id after a snippet issued earlier was
\* deleted.
C2_Witness ==
  /\ AddOk
  /\ Len(issued) >= 2
  /\ \E i \in 1..(Len(issued) - 1) : ~SnippetExists(cur, issued[i])

\* C3, as stated: after add_snippet failed once its row was inserted, the
\* connection's tables hold neither that row nor a link to it nor a tag row
\* the call created.
C3_AddAllOrNothing ==
  (last.op = "add" /\ Failed /\ last.progress >= 1) =>
    /\ last.id \notin DOMAIN cur.snippets
    /\ \A x \in cur.links : x[1] # last.id
    /\ Len(cur.tags) <= last.before.ntags

\* C4, as stated: neither add_snippet nor update_snippet fails on a tag name
\* that occurs twice, and no (snippet, tag) pair is linked twice.
C4_DuplicateNamesTolerated ==
  last.op \in {"add", "update"} => last.outcome # "integrity_error"

\* C5: in the committed tables and in the connection's, tag names are trimmed,
\* lower-cased, non-blank and pairwise distinct; after a successful add or
\* update every name asked for has exactly one row, under its trimmed
\* lower-cased form.
TagTableOk(db) ==
  /\ \A i \in 1..Len(db.tags) : IsCanonical(db.tags[i])
  /\ \A i \in 1..Len(db.tags) : \A j \in 1..Len(db.tags) :
        i # j => db.tags[i] # db.tags[j]

C5_TagsNormalizedOnce ==
  /\ TagTableOk(cur)
  /\ TagTableOk(committed)
  /\ (AddOk \/ UpdateOk) =>
       \A n \in WantedNames(last.tags) :
         Cardinality({i \in 1..Len(cur.tags) : cur.tags[i] = n}) = 1

\* C5 witness: a successful add that names, in upper case, a tag an earlier
\* call created, the tag table holding that name once.
C5_Witness ==
  /\ AddOk
  /\ last.before.ntags = 1
  /\ <<"A">> \in Range(last.tags)
  /\ Cardinality({i \in 1..Len(cur.tags) : cur.tags[i] = <<"a">>}) = 1

\* C6: after delete_snippet(id) returned True, get(id) is not-found and no
\* link of id is left; every committed link belongs to an existing snippet.
C6_DeleteCascades ==
  /\ (last.op = "delete" /\ last.result = "True") =>
       /\ ~GetSnippetById(cur, last.id).found
       /\ \A x \in cur.links \cup committed.links : x[1] # last.id
  /\ \A x \in committed.links : x[1] \in DOMAIN committed.snippets

\* C6 witness: delete_snippet returned True for a snippet that had tags.
C6_Witness ==
  /\ last.op = "delete" /\ last.result = "True"
  /\ last.before.tagids # {}

\* C7: after a successful update(id, d, c, l, tags) the row is (d, c, l) and
\* the snippet is linked to exactly the trimmed, lower-cased non-blank names of
\* tags.
C7_UpdateReplaces ==
  UpdateOk =>
    /\ last.result = "True"
    /\ cur.snippets[last.id] = Row(last.d, last.c, last.l)
    /\ NamesLinked(cur, last.id) = WantedNames(last.tags)
    /\ committed = cur

\* C7 witness: a successful update that changed the row and dropped a tag the
\* snippet had.
C7_Witness ==
  /\ UpdateOk
  /\ last.before.row # cur.snippets[last.id]
  /\ last.before.tagids \ TagIdsOf(cur, last.id) # {}

\* C8: get, update and delete of an id that does not exist, the engine
\* raising no error, report not-found as a value and leave the tables as they
\* were.
C8_NotFoundIsAValue ==
  [][(/\ last'.op \in {"get", "update", "delete"}
      /\ last'.id \notin DOMAIN cur.snippets
      /\ last'.outcome # "engine_error")
     => (/\ last'.outcome = "notfound"
         /\ last'.result = (IF last'.op = "get" THEN "None" ELSE "False")
         /\ cur' = cur
         /\ committed' = committed)]_vars

\* C8 witness: update of a missing id, with tags, on a store that holds a
\* snippet.
C8_Witness ==
  /\ last.op = "update" /\ last.outcome = "notfound"
  /\ last.tags # <<>>
  /\ DOMAIN cur.snippets # {}

\* C9, as stated: after update_snippet failed once the row was rewritten, the
\* error is raised and the snippet has the row and the links it had before.
C9_UpdateAllOrNothing ==
  (last.op = "update" /\ last.before.exists /\ Failed /\ last.progress >= 2) =>
    /\ last.result = "raise"
    /\ SnippetExists(cur, last.id)
    /\ cur.snippets[last.id] = last.before.row
    /\ TagIdsOf(cur, last.id) = last.before.tagids

\* C10, as stated: when the engine raises during delete_snippet, the call
\* returns False and the snippet and its links are still there.
C10_DeleteDegrades ==
  (last.op = "delete" /\ last.before.exists /\ last.outcome = "engine_error") =>
    /\ last.result = "False"
    /\ last.id \in DOMAIN cur.snippets
    /\ cur.snippets[last.id] = last.before.row
    /\ TagIdsOf(cur, last.id) = last.before.tagids

\* C11: once closed, the instance stays closed and without a connection, and
\* every operation called on it (initialize, list, get, add, update, delete,
\* full-text search, fallback search, repopulate) raises and leaves the
\* tables as they were.
C11_ClosedIsTerminal ==
  [][closed =>
       /\ closed' /\ connection' = "none"
       /\ last'.op # "close" =>
            /\ last'.outcome = "closed" /\ last'.result = "raise"
            /\ cur' = cur /\ committed' = committed /\ req' = req]_vars

\* C11 witness: delete_snippet of a stored snippet raised on a closed
\* instance, two calls after the close.
C11_Witness ==
  /\ closed /\ connection = "none"
  /\ last.op = "delete" /\ last.result = "raise"
  /\ last.before.exists
  /\ steps = MaxLifeOps

\* The index entries that refer to snippet sid.
EntriesOf(db, sid) == {i \in 1..Len(db.fts) : db.fts[i].content_id = sid}

\* C12: every committed index entry refers to a committed snippet, and after
\* delete_snippet(id) returned True no index entry refers to id.
C12_NoEntryOutlivesItsSnippet ==
  /\ \A i \in 1..Len(committed.fts) :
        committed.fts[i].content_id \in DOMAIN committed.snippets
  /\ (last.op = "delete" /\ last.result = "True") =>
       EntriesOf(cur, last.id) = {} /\ EntriesOf(committed, last.id) = {}

\* C12 witness: delete_snippet returned True for a snippet that had an index
\* entry, another snippet's entry staying.
C12_Witness ==
  /\ last.op = "delete" /\ last.result = "True"
  /\ \E i \in 1..Len(last.before.index) : last.before.index[i].content_id = last.id
  /\ committed.fts # <<>>

\* The maximal runs of non-blank characters of a text.
Runs(t) ==
  {SubSeq(t, a, b) : <<a, b>> \in
     {x \in (1..Len(t)) \X (1..Len(t)) :
        /\ x[1] <= x[2]
        /\ \A i \in x[1]..x[2] : t[i] # " "
        /\ (x[1] = 1 \/ t[x[1] - 1] = " ")
        /\ (x[2] = Len(t) \/ t[x[2] + 1] = " ")}}

\* A text whose blanks are single and stand between two non-blank characters.
SingleSpaced(t) ==
  \A i \in 1..Len(t) : t[i] = " " => (1 < i /\ i < Len(t) /\ t[i + 1] # " ")

\* The index holds exactly one entry per snippet of db and no other, each
\* with the snippet's description, content and language and its tag names
\* joined by single blanks.
IndexExact(db) ==
  /\ \A i \in 1..Len(db.fts) : db.fts[i].content_id \in DOMAIN db.snippets
  /\ \A sid \in DOMAIN db.snippets :
        /\ Cardinality(EntriesOf(db, sid)) = 1
        /\ \A i \in EntriesOf(db, sid) :
              /\ db.fts[i].description = db.snippets[sid].description
              /\ db.fts[i].content = db.snippets[sid].content
              /\ db.fts[i].language = db.snippets[sid].language
              /\ SingleSpaced(db.fts[i].tags)
              /\ Runs(db.fts[i].tags) = NamesLinked(db, sid)

PopulateOk == last.op = "populate" /\ last.outcome = "ok"

\* C14: after populate_fts_table succeeded, the index holds exactly one entry
\* per existing snippet and no other, each with the snippet's current
\* description, content, language and tag names joined by single blanks
\* (empty for none), and it is committed; when it succeeds again at once, the
\* index is unchanged.
C14_RepopulateIsExactAndIdempotent ==
  [][(last'.op = "populate" /\ last'.outcome = "ok") =>
       /\ IndexExact(cur')
       /\ committed' = cur'
       /\ PopulateOk => cur'.fts = cur.fts]_vars

\* C14 witness: populate_fts_table succeeded on an index that differed from
\* the primary data, a snippet having two tags.
C14_Witness ==
  /\ PopulateOk
  /\ last.before.index # cur.fts
  /\ \E sid \in DOMAIN cur.snippets : Cardinality(TagIdsOf(cur, sid)) = 2

\* C14 witness of the second run: populate_fts_table succeeded on the index
\* it had just built for a snippet with two tags.
C14_WitnessTwice ==
  /\ PopulateOk
  /\ last.before.index = cur.fts
  /\ \E sid \in DOMAIN cur.snippets : Cardinality(TagIdsOf(cur, sid)) = 2

\* The characters words are made of.
WordChars == {"a", "b", "c", "d", "e", "p", "A", "B"}

\* The words of a text: its maximal runs of word characters.
WordsOf(t) ==
  {SubSeq(t, x[1], x[2]) : x \in
     {y \in (1..Len(t)) \X (1..Len(t)) :
        /\ y[1] <= y[2]
        /\ \A i \in y[1]..y[2] : t[i] \in WordChars
        /\ (y[1] = 1 \/ t[y[1] - 1] \notin WordChars)
        /\ (y[2] = Len(t) \/ t[y[2] + 1] \notin WordChars)}}

\* The ids of the dicts of a list.
RowIds(rows) == {rows[i].id : i \in 1..Len(rows)}

\* The snippets with a word of three characters or more that starts with q.
StartsAWord(db, q) ==
  {sid \in DOMAIN db.snippets :
     \E w \in WordsOf(db.snippets[sid].content) : Len(w) >= 3 /\ SubSeq(w, 1, 3) = q}

C13_WitnessAdd ==
  /\ last.op = "fts" /\ last.outcome = "ok"
  /\ req.query = <<"A", "b", "b">>
  /\ req.rows # <<>>

FtsRaised == last.op = "fts" /\ last.outcome \in {"fallback", "engine_error"}

\* C15, as stated: when the full-text SELECT raises an engine error,
\* search_snippets_fts raises nothing and returns what _fallback_search
\* returns for the same raw query and limit.
C15_FtsFailureMasked ==
  FtsRaised =>
    /\ last.result = "list"
    /\ req.rows = FallbackRows(cur, req.query, req.limit, req.asc)

\* C15, amended: when the full-text SELECT raises an engine error,
\* search_snippets_fts returns what _fallback_search returns for the same raw
\* query and limit, and raises exactly when the fallback's SELECT raises too.
C15_FtsFailureFallsBack ==
  FtsRaised =>
    IF req.sqlFails THEN last.result = "raise"
    ELSE /\ last.result = "list"
         /\ req.rows = FallbackRows(cur, req.query, req.limit, req.asc)
         /\ \A i \in 1..Len(req.rows) : req.rows[i].rank = 0

\* C15 witness: the engine failed on the full-text SELECT of a query that
\* parses, and search_snippets_fts returned the snippet the fallback finds.
C15_Witness ==
  /\ FtsRaised /\ req.ftsFails /\ ~req.sqlFails
  /\ req.query = <<"b", "B">>
  /\ req.rows # <<>>

\* Characters that are neither letters nor blanks.
Punctuation == {"\"", "'", "(", ")", "*", ":", "^", "-", "_", ","}

\* The characters the sanitizer replaces by blanks.
Stripped == {"\"", "'", "(", ")", "*", ":", "^"}

OnlyOf(q, chars) == q # <<>> /\ \A i \in 1..Len(q) : q[i] \in chars

\* C16, as stated: for a query of punctuation only, search_snippets_fts (the
\* engine not failing of itself) returns no snippet, whatever is stored.
C16_PunctuationFindsNothing ==
  (last.op = "fts" /\ ~req.ftsFails /\ ~req.sqlFails /\ OnlyOf(req.query, Punctuation)) =>
    req.rows = <<>>

\* C16, amended: for a query made only of the characters the sanitizer strips
\* (quotes, parentheses, asterisk, colon, caret) and blanks, the sanitized
\* expression is the empty phrase and search_snippets_fts (the engine not
\* failing of itself) returns no snippet, whatever is stored.
C16_StrippedFindsNothing ==
  (last.op = "fts" /\ ~req.ftsFails /\ OnlyOf(req.query, Stripped \cup {" "})) =>
    /\ last.outcome = "ok"
    /\ req.rows = <<>>
    /\ PrepareFtsQuery(req.query) = <<"\"", "\"">>

\* C16 witness: search_snippets_fts returned nothing for the query '(' while
\* a snippet with '(' in its content is stored.
C16_Witness ==
  /\ last.op = "fts" /\ ~req.ftsFails
  /\ req.query = <<"(">>
  /\ \E sid \in DOMAIN cur.snippets : "(" \in Range(cur.snippets[sid].content)
  /\ req.rows = <<>>

\* The text holds q as a substring, letters compared without regard to case.
Holds(t, q) ==
  /\ t # NULL
  /\ \E i \in 0..(Len(t) - Len(q)) : \A k \in 1..Len(q) : Fold(t[i + k]) = Fold(q[k])

\* The snippets one of whose description, content and language holds q.
Holding(db, q) ==
  {sid \in DOMAIN db.snippets :
     \/ Holds(db.snippets[sid].description, q)
     \/ Holds(db.snippets[sid].content, q)
     \/ Holds(db.snippets[sid].language, q)}

\* The list has, without repetition, the n newest-created snippets of S (all of
\* S when it has no more than n), newest first.
NewestFirst(db, rows, S, n) ==
  /\ RowIds(rows) \subseteq S
  /\ Len(rows) = (IF Cardinality(S) <= n THEN Cardinality(S) ELSE n)
  /\ \A i \in 1..Len(rows) : \A j \in 1..Len(rows) :
        /\ i # j => rows[i].id # rows[j].id
        /\ i < j => db.created[rows[i].id] >= db.created[rows[j].id]
  /\ \A x \in S \ RowIds(rows) : \A y \in RowIds(rows) : db.created[x] <= db.created[y]

\* C17, as stated: _fallback_search returns exactly the snippets whose
\* description, content or language holds the raw query as a literal
\* substring, without regard to case, newest-created first, at most limit of
\* them, each with rank 0.
C17_FallbackIsLiteralSubstring ==
  (last.op = "fallback" /\ last.outcome = "ok") =>
    /\ NewestFirst(cur, req.rows, Holding(cur, req.query), req.limit)
    /\ \A i \in 1..Len(req.rows) : req.rows[i].rank = 0

\* A text with its letters folded to lower case.
FoldText(t) == [i \in 1..Len(t) |-> Fold(t[i])]

\* A snippet of language l with the set names of tags has the language asked
\* for and every tag asked for, letters compared without regard to case; None
\* and the empty value ask for nothing.
WantedOf(l, names, language, tags) ==
  /\ (language # NULL /\ language # <<>>) => FoldText(l) = FoldText(language)
  /\ (tags # NULL /\ tags # <<>>) =>
       \A t \in Range(tags) : \E u \in names : FoldText(u) = FoldText(t)

Wanted(sn, language, tags) == WantedOf(sn.language, Range(sn.tags), language, tags)

\* The k-th smallest element of a set of numbers.
Kth(S, k) == CHOOSE i \in S : Cardinality({j \in S : j <= i}) = k

\* out is the list given restricted, in its order, to the positions in keep.
Restricted(out, given, keep) ==
  /\ Len(out) = Cardinality(keep)
  /\ \A k \in 1..Len(out) : out[k] = given[Kth(keep, k)]

\* C19: _apply_filters returns the list given restricted, in its order, to
\* the snippets whose language is the one asked for and whose tags include
\* every tag asked for, without regard to case.
C19_FiltersRestrictInOrder ==
  req.kind = "filter" =>
    Restricted(req.rows, req.given,
               {i \in 1..Len(req.given) : Wanted(req.given[i], req.language, req.tags)})

\* C19 witness: of two snippets, _apply_filters kept the one whose language
\* and tags match in another case and dropped the one that lacks a tag.
C19_Witness ==
  /\ req.kind = "filter"
  /\ req.language = <<"b">> /\ req.tags = << <<"a">>, <<"B">> >>
  /\ Len(req.given) = 2 /\ Len(req.rows) = 1
  /\ req.rows[1].language = <<"B">>

\* The score the library gives a candidate.
ScoreOf(sn) == req.scores[SearchableText(sn)]

\* C20, as stated: _enhance_with_fuzzy_search returns only candidates that
\* score above 60, never one that scores 60, and every one that scores 61
\* when the candidates are no more than limit.
C20_ThresholdIsStrict ==
  req.kind = "enhance" =>
    /\ \A i \in 1..Len(req.given) :
          req.given[i].id \in RowIds(req.rows) => ScoreOf(req.given[i]) > 60
    /\ \A i \in 1..Len(req.given) :
          ScoreOf(req.given[i]) = 60 => req.given[i].id \notin RowIds(req.rows)
    /\ Len(req.given) <= req.limit =>
          \A i \in 1..Len(req.given) :
            ScoreOf(req.given[i]) = 61 => req.given[i].id \in RowIds(req.rows)

\* The snippets of the store with the language and the tags asked for.
Passing(db, language, tags) ==
  {sid \in DOMAIN db.snippets :
     WantedOf(IF db.snippets[sid].language = NULL THEN <<>> ELSE db.snippets[sid].language,
              NamesLinked(db, sid), language, tags)}

BlankSearch ==
  /\ last.op = "search" /\ Blank(req.query)
  /\ last.outcome # "closed" /\ ~req.sqlFails

\* C18: for a blank query search_snippets returns the limit newest-created of
\* the snippets with the language and the tags asked for, newest first, each
\* with its stored text and tags (an empty list for a snippet without tags),
\* without full-text rank or score, whether or not the full-text index works
\* and whether or not use_fuzzy is set.
C18_BlankQueryListsNewestFirst ==
  BlankSearch =>
    /\ last.result = "list"
    /\ NewestFirst(cur, req.rows, Passing(cur, req.language, req.tags), req.limit)
    /\ \A i \in 1..Len(req.rows) :
          /\ req.rows[i].content = cur.snippets[req.rows[i].id].content
          /\ Range(req.rows[i].tags) = NamesLinked(cur, req.rows[i].id)
          /\ NamesLinked(cur, req.rows[i].id) = {} => req.rows[i].tags = <<>>
          /\ DOMAIN req.rows[i] \cap {"rank", "score", "fuzzy_score"} = {}

\* C18 witness: of three snippets two have the language asked for, and a
\* blank-query search_snippets with limit 1 returned the newer of them, which
\* has no tags.
C18_Witness ==
  /\ BlankSearch /\ req.query = <<" ">>
  /\ req.limit = 1 /\ req.language = <<"b">> /\ req.tags = NULL
  /\ Cardinality(DOMAIN cur.snippets) = 3
  /\ Cardinality(Passing(cur, req.language, req.tags)) = 2
  /\ Len(req.rows) = 1 /\ req.rows[1].tags = <<>>
  /\ \E x \in Passing(cur, req.language, req.tags) :
        cur.created[x] < cur.created[req.rows[1].id]

\* C18 witness without filters: a blank-query search_snippets with no language
\* and no tags asked for cut the list of all snippets to limit.
C18_WitnessNoFilters ==
  /\ BlankSearch /\ req.language = NULL /\ req.tags = NULL
  /\ Len(req.rows) = req.limit
  /\ Cardinality(DOMAIN cur.snippets) > req.limit

EnhanceDone == req.kind = "enhance"

\* The candidates have pairwise different searchable texts.
DistinctTexts ==
  \A i \in 1..Len(req.given) : \A j \in 1..Len(req.given) :
    i # j => SearchableText(req.given[i]) # SearchableText(req.given[j])

\* The candidates the library scores above 60.
Survivors == {i \in 1..Len(req.given) : ScoreOf(req.given[i]) > 60}

\* Ten times the combined score of a candidate: 0.7 * similarity + 0.3 * rank
\* when its rank is not zero, the similarity when it is.
CombinedOf(sn) ==
  IF sn.rank # 0 THEN 7 * ScoreOf(sn) + 3 * sn.rank ELSE 10 * ScoreOf(sn)

\* C21, as stated, for candidates of pairwise different texts: the result of
\* _enhance_with_fuzzy_search holds survivors only, limit of them or all when
\* they are fewer, each with its combined score, in descending order of it,
\* and no survivor left out has a higher combined score than one returned.
C21_BestByCombinedScore ==
  (EnhanceDone /\ DistinctTexts) =>
    /\ Len(req.rows) = (IF Cardinality(Survivors) <= req.limit
                        THEN Cardinality(Survivors) ELSE req.limit)
    /\ \A k \in 1..Len(req.rows) :
          \E i \in Survivors : /\ req.rows[k].id = req.given[i].id
                               /\ req.rows[k].score = CombinedOf(req.given[i])
    /\ \A k \in 1..(Len(req.rows) - 1) : req.rows[k].score >= req.rows[k + 1].score
    /\ \A i \in Survivors :
          req.given[i].id \notin RowIds(req.rows) =>
            \A k \in 1..Len(req.rows) : CombinedOf(req.given[i]) <= req.rows[k].score

\* C24, as stated: the result of _enhance_with_fuzzy_search holds candidates
\* only, none of them twice, and every candidate that scores above 60 when
\* the candidates are no more than limit.
C24_EachCandidateOnce ==
  EnhanceDone =>
    /\ RowIds(req.rows) \subseteq RowIds(req.given)
    /\ \A k \in 1..Len(req.rows) : \A m \in 1..Len(req.rows) :
          k # m => req.rows[k].id # req.rows[m].id
    /\ Len(req.given) <= req.limit =>
          \A i \in Survivors : req.given[i].id \in RowIds(req.rows)

Orphans(db) == {i \in 1..Len(db.tags) : \A x \in db.links : x[2] # i}

C22_WitnessUpdate ==
  /\ last.op = "update" /\ last.outcome = "ok"
  /\ last.before.tagids # {}
  /\ last.before.tagids \subseteq Orphans(committed)

\* A character that ends a token: a blank or one of the seven replaced.
EndsToken(ch) == ch = " " \/ ch \in Stripped

\* The positions of q from i on that hold a token character.
Ink(q, i) == {j \in i..Len(q) : ~EndsToken(q[j])}

\* The first of a non-empty set of positions.
First(S) == CHOOSE j \in S : \A k \in S : j <= k

\* The last position of the token of q that starts at i.
TokenEnd(q, i) == CHOOSE j \in i..Len(q) :
  /\ \A k \in i..j : ~EndsToken(q[k])
  /\ j = Len(q) \/ EndsToken(q[j + 1])

\* A token with '*' after it when it has two characters or more.
Starred(w) == IF Len(w) >= 2 THEN w \o <<"*">> ELSE w

\* The tokens of q from position i on, starred, with one space between them.
RECURSIVE Joined(_, _)
Joined(q, i) ==
  IF Ink(q, i) = {} THEN <<>>
  ELSE LET a == First(Ink(q, i))
           b == TokenEnd(q, a)
       IN Starred(SubSeq(q, a, b))
            \o (IF Ink(q, b + 1) = {} THEN <<>> ELSE <<" ">> \o Joined(q, b + 1))

Prepared == req.kind = "prepare"

\* C23, as stated: _prepare_fts_query returns the tokens of the query, those
\* of two characters or more with '*' after them, in their order with one
\* space between them.
C23_PrepareJoinsTokens == Prepared => req.out = Joined(req.query, 1)

\* C23, amended: _prepare_fts_query returns the tokens of the query, those of
\* two characters or more with '*' after them, in their order with one space
\* between them, and the empty phrase '""' when the query has no token.
C23_PrepareJoinsTokensOrEmptyPhrase ==
  Prepared =>
    req.out = (IF Ink(req.query, 1) = {} THEN <<"\"", "\"">> ELSE Joined(req.query, 1))

\* C23 witness: _prepare_fts_query made 'a Ba*' of 'a(Ba'.
C23_Witness ==
  /\ Prepared
  /\ req.query = <<"a", "(", "B", "a">>
  /\ req.out = <<"a", " ", "B", "a", "*">>

FtsReturned == last.op = "fts" /\ last.result = "list"

\* Every row is an existing snippet with its current text, and no snippet has
\* two rows.
RowsAreSnippets(db, rows) ==
  /\ \A i \in 1..Len(rows) :
        /\ rows[i].id \in DOMAIN db.snippets
        /\ rows[i].description = AsText(db.snippets[rows[i].id].description)
        /\ rows[i].content = db.snippets[rows[i].id].content
        /\ rows[i].language = AsText(db.snippets[rows[i].id].language)
  /\ \A i \in 1..Len(rows) : \A j \in 1..Len(rows) : i # j => rows[i].id # rows[j].id

\* C25, as stated: every row search_snippets_fts returns is an existing
\* snippet with its current description, content, language and tags, and no
\* snippet has two rows.
C25_FtsReturnsCurrentSnippets ==
  FtsReturned =>
    /\ RowsAreSnippets(cur, req.rows)
    /\ \A i \in 1..Len(req.rows) :
          Range(req.rows[i].tags) = NamesLinked(cur, req.rows[i].id)

\* C25, amended: every row search_snippets_fts returns is an existing snippet
\* with its current description, content and language and, as tags, its
\* current tag names each cut at every ', ' it contains, and no snippet has two
\* rows.
C25_FtsReturnsCurrentSnippetsCut ==
  FtsReturned =>
    /\ RowsAreSnippets(cur, req.rows)
    /\ \A i \in 1..Len(req.rows) :
          Range(req.rows[i].tags) =
            UNION {Pieces(n) : n \in NamesLinked(cur, req.rows[i].id)}

\* C25 witness: the index still holds the tag 'a' of a snippet whose tags an
\* update_snippet replaced after the index was rebuilt; search_snippets_fts
\* found the snippet by 'a' and returned it with the tag it has now.
C25_Witness ==
  /\ FtsReturned /\ last.outcome = "ok"
  /\ req.query = <<"a">>
  /\ \E i \in 1..Len(req.rows) :
        /\ req.rows[i].id = 1
        /\ req.rows[i].tags = << <<"b">> >>

\* C25 witness after a delete: the first snippet is deleted, and
\* search_snippets_fts returned another one and not it.
C25_WitnessDeleted ==
  /\ FtsReturned /\ last.outcome = "ok"
  /\ 1 \notin DOMAIN cur.snippets
  /\ req.rows # <<>>

\* C26: a search_snippets given a Database leaves it as open or closed as it
\* was, whether it returns or raises, and the next call on a Database that
\* was not closed is not refused; a search_snippets given none leaves the
\* Database it created closed, whether it returns or raises, and the caller's
\* untouched.
C26_SearchClosesOnlyItsOwn ==
  [][/\ (steps' = steps + 1 /\ last'.op = "search") =>
          IF req'.own
          THEN /\ req'.created.closed /\ req'.created.connection = "none"
               /\ closed' = closed /\ connection' = connection
          ELSE /\ req'.created = [connection |-> "absent", closed |-> FALSE]
               /\ closed' = closed
               /\ connection = "open" => connection' = "open"
     /\ (steps' = steps + 1 /\ last.op = "search" /\ ~req.own
           /\ last.outcome # "closed" /\ last'.op = "get") =>
          last'.outcome # "closed"]_vars

\* C26 witness: a search_snippets given no Database raised, and the Database
\* it created is closed.
C26_Witness ==
  /\ last.op = "search" /\ req.own
  /\ last.result = "raise"
  /\ req.created.closed

\* C26 witness for a Database passed in: the search_snippets it was given to
\* raised, and the get_snippet_by_id that followed found the snippet.
C26_WitnessPassed ==
  /\ last.op = "get" /\ last.outcome = "ok"
  /\ req.kind = "search" /\ ~req.own /\ req.sqlFails

====
